---------------------------- MODULE Spec2Model ----------------------------
(***************************************************************************)
(* A model of src/app.py: RatingAgencyAlertSystem and main.                *)
(*                                                                         *)
(* One run of main is a sequential program: the constructor sets up the    *)
(* browser session, run_all_scrapers calls the seven source adapters in    *)
(* order, the alerts are saved, the report is built and written, and       *)
(* cleanup releases the session.  The browser, the web sites, the file     *)
(* system and the wall clock are the environment: what a page shows, which *)
(* control is present, whether an interaction faults and when midnight     *)
(* passes are nondeterministic choices.                                    *)
(*                                                                         *)
(* Texts are sequences of one-character strings, so that strip, replace    *)
(* and substring tests are computed as the code computes them.             *)
(***************************************************************************)
EXTENDS Integers, Sequences, FiniteSets, TLC

(***************************************************************************)
(* Bounds of the model.                                                    *)
(***************************************************************************)
\* midnights that may pass during one run
MaxTicks == 1
\* candidate records in one page snapshot
MaxRows == 2
\* iterations of any traversal loop (pages, scrolls, load-more clicks)
MaxIter == 2
\* alerts collected in one run
MaxAlerts == 3
\* the scroll heights the recent-ratings section may report: 1..MaxHeight
MaxHeight == 2

\* the longest list of hints extract_text_from_element is called with
MaxHints == 2

(***************************************************************************)
(* Texts.                                                                  *)
(***************************************************************************)
Whitespace == {" ", "\t", "\n"}

UpperLetters ==
    <<"A","B","C","D","E","F","G","H","I","J","K","L","M",
      "N","O","P","Q","R","S","T","U","V","W","X","Y","Z">>

LowerLetters ==
    <<"a","b","c","d","e","f","g","h","i","j","k","l","m",
      "n","o","p","q","r","s","t","u","v","w","x","y","z">>

\* str.lower, one character
LowerChar(c) ==
    IF \E i \in 1..Len(UpperLetters) : UpperLetters[i] = c
    THEN LowerLetters[CHOOSE i \in 1..Len(UpperLetters) : UpperLetters[i] = c]
    ELSE c

\* str.lower
Lower(s) == [i \in 1..Len(s) |-> LowerChar(s[i])]

\* str.strip: leading and trailing whitespace removed
Strip(s) ==
    LET keep == {i \in 1..Len(s) : s[i] \notin Whitespace}
    IN  IF keep = {} THEN <<>>
        ELSE LET lo == CHOOSE i \in keep : \A j \in keep : i <= j
                 hi == CHOOSE i \in keep : \A j \in keep : i >= j
             IN  SubSeq(s, lo, hi)

\* str.replace(c, ''): every occurrence of the character removed
Remove(s, c) ==
    LET ne(x) == x # c
    IN  SelectSeq(s, ne)

\* the Python test `t in s` on strings
Contains(s, t) ==
    \E i \in 0..(Len(s) - Len(t)) : SubSeq(s, i + 1, i + Len(t)) = t

(***************************************************************************)
(* The calendar and strftime.                                              *)
(***************************************************************************)
Digits == <<"0","1","2","3","4","5","6","7","8","9">>

Digit(n) == Digits[n + 1]

\* %d and %m: two digits, zero padded
D2(n) == <<Digit((n \div 10) % 10), Digit(n % 10)>>

\* %Y: four digits
D4(n) == <<Digit((n \div 1000) % 10), Digit((n \div 100) % 10)>> \o D2(n)

\* %B, the full month name
MonthName ==
    << <<"J","a","n","u","a","r","y">>,
       <<"F","e","b","r","u","a","r","y">>,
       <<"M","a","r","c","h">>,
       <<"A","p","r","i","l">>,
       <<"M","a","y">>,
       <<"J","u","n","e">>,
       <<"J","u","l","y">>,
       <<"A","u","g","u","s","t">>,
       <<"S","e","p","t","e","m","b","e","r">>,
       <<"O","c","t","o","b","e","r">>,
       <<"N","o","v","e","m","b","e","r">>,
       <<"D","e","c","e","m","b","e","r">> >>

\* %b, the abbreviated month name
MonthAbbr(m) == SubSeq(MonthName[m], 1, 3)

IsLeap(y) == (y % 4 = 0 /\ y % 100 # 0) \/ y % 400 = 0

DaysInMonth(y, m) ==
    IF m = 2 THEN (IF IsLeap(y) THEN 28 + 1 ELSE 28)
    ELSE IF m \in {4, 6, 9, 11} THEN 30 ELSE 31

\* the calendar day after dt
NextDay(dt) ==
    IF dt.d < DaysInMonth(dt.y, dt.m) THEN [dt EXCEPT !.d = dt.d + 1]
    ELSE IF dt.m < 12 THEN [dt EXCEPT !.d = 1, !.m = dt.m + 1]
    ELSE [y |-> dt.y + 1, m |-> 1, d |-> 1]

\* the date on which the run starts
StartDate == [y |-> 2025, m |-> 12, d |-> 31]

RECURSIVE DateOf(_)
\* the calendar date n midnights after the start of the run
DateOf(n) == IF n = 0 THEN StartDate ELSE NextDay(DateOf(n - 1))

Sep(c, a, b, e) == a \o <<c>> \o b \o <<c>> \o e

\* today.strftime(...) for the formats the program uses
Fmt_dmy_dash(dt)  == Sep("-", D2(dt.d), D2(dt.m), D4(dt.y))
Fmt_ymd_dash(dt)  == Sep("-", D4(dt.y), D2(dt.m), D2(dt.d))
Fmt_dmy_slash(dt) == Sep("/", D2(dt.d), D2(dt.m), D4(dt.y))
Fmt_mdy_slash(dt) == Sep("/", D2(dt.m), D2(dt.d), D4(dt.y))
Fmt_dby_dash(dt)  == Sep("-", D2(dt.d), MonthAbbr(dt.m), D4(dt.y))
Fmt_dby_space(dt) == Sep(" ", D2(dt.d), MonthAbbr(dt.m), D4(dt.y))
Fmt_dBy_space(dt) == Sep(" ", D2(dt.d), MonthName[dt.m], D4(dt.y))

\* get_current_date_str, called when the clock reads now: today = datetime.now()
get_current_date_str(now) ==
    LET today == DateOf(now)
    IN  [dd_mm_yyyy  |-> Fmt_dmy_dash(today),
         yyyy_mm_dd  |-> Fmt_ymd_dash(today),
         dd_mm_yyyy_slash |-> Fmt_dmy_slash(today),
         mm_dd_yyyy_slash |-> Fmt_mdy_slash(today),
         dd_mmm_yyyy |-> Fmt_dby_dash(today),
         dd_mmm_yyyy_space |-> Fmt_dby_space(today)]

\* the list today_formats of is_today_date
today_formats(today) ==
    << Fmt_dmy_dash(today), Fmt_ymd_dash(today), Fmt_dmy_slash(today),
       Fmt_mdy_slash(today), Fmt_dby_dash(today), Fmt_dby_space(today),
       Fmt_dBy_space(today) >>

\* a variant of is_today_date that leaves the commas in
is_today_date_with_commas(now, date_text) ==
    IF date_text = <<>> THEN FALSE
    ELSE LET cleaned_date == Strip(date_text)
             fmts == today_formats(DateOf(now))
         IN  \E i \in 1..Len(fmts) : Contains(cleaned_date, fmts[i])

\* a variant of is_today_date that wants the whole text to be a rendering
is_today_date_whole_text(now, date_text) ==
    IF date_text = <<>> THEN FALSE
    ELSE LET cleaned_date == Remove(Strip(date_text), ",")
             fmts == today_formats(DateOf(now))
         IN  \E i \in 1..Len(fmts) : cleaned_date = fmts[i]

\* is_today_date, called when the clock reads now: today = datetime.now()
is_today_date(now, date_text) ==
    IF date_text = <<>> THEN FALSE
    ELSE LET cleaned_date == Remove(Strip(date_text), ",")
             fmts == today_formats(DateOf(now))
         IN  \E i \in 1..Len(fmts) : Contains(cleaned_date, fmts[i])

(***************************************************************************)
(* The hint words the adapters pass to extract_text_from_element.          *)
(***************************************************************************)
W_company == <<"c","o","m","p","a","n","y">>

W_entity == <<"e","n","t","i","t","y">>

W_name == <<"n","a","m","e">>

W_title == <<"t","i","t","l","e">>

W_date == <<"d","a","t","e">>

W_rated_on == <<"r","a","t","e","d","-","o","n">>

W_timestamp == <<"t","i","m","e","s","t","a","m","p">>

W_action == <<"a","c","t","i","o","n">>

W_rating == <<"r","a","t","i","n","g">>

W_grade == <<"g","r","a","d","e">>

W_description == <<"d","e","s","c","r","i","p","t","i","o","n">>

W_symbol == <<"s","y","m","b","o","l">>

W_subject == <<"s","u","b","j","e","c","t">>

W_time == <<"t","i","m","e">>

(***************************************************************************)
(* Page content.  A snapshot (driver.page_source parsed by BeautifulSoup)  *)
(* is the sequence of its candidate records in document order.  A record   *)
(* is a row or a card: its tag, its class, and its descendant elements in  *)
(* document order, each with a tag, a class (the empty text: no class      *)
(* attribute) and its own text.                                            *)
(***************************************************************************)
Elem(tag, cls, text) == [tag |-> tag, cls |-> cls, text |-> text]

Record(tag, cls, kids) == [tag |-> tag, cls |-> cls, kids |-> kids]

\* texts the pages of the model show
Acme == <<"A","c","m","e">>

Grade == <<"A","A","+">>

\* a date cell: the date of day k as DD/MM/YYYY inside a longer timestamp
Stamp(k) == <<" ">> \o Fmt_dmy_slash(DateOf(k)) \o <<" ","1","0",":","3","0">>

\* a table row <tr class="gridrow"> of three classed cells: date, company, action
GridRow(date, company, action) ==
    Record("tr", "gridrow",
           << Elem("td", W_date, date), Elem("td", W_company, company),
              Elem("td", W_action, action) >>)

\* a table row of two cells: date, text
ShortRow(date, text) ==
    Record("tr", "", << Elem("td", <<>>, date), Elem("td", <<>>, text) >>)

\* a header row: <th> cells only
HeaderRow ==
    Record("tr", "", << Elem("th", <<>>, W_date), Elem("th", <<>>, W_company) >>)

\* a card <div class="rating-item"> of three classed spans
Card(date, company, action) ==
    Record("div", "rating-item",
           << Elem("span", W_company, company), Elem("span", W_date, date),
              Elem("span", W_action, action) >>)

\* the days whose date the rows of a page read at clock reading now may carry:
\* today and yesterday
Days(now) == {k \in {now - 1, now} : k >= 0}

\* the table rows a page read at clock reading now may hold
TableRecords(now) ==
    { GridRow(Stamp(k), Acme, Grade) : k \in Days(now) } \cup
    { GridRow(Stamp(now), <<>>, Grade), ShortRow(Stamp(now), Acme), HeaderRow }

\* the cards a page read at clock reading now may hold
CardRecords(now) ==
    { Card(Stamp(k), Acme, Grade) : k \in Days(now) } \cup
    { Card(Stamp(now), <<" ">>, Grade) }

RECURSIVE SeqsUpTo(_, _)
\* the sequences over S of length at most n
SeqsUpTo(S, n) ==
    IF n = 0 THEN { <<>> }
    ELSE LET shorter == SeqsUpTo(S, n - 1)
         IN  shorter \cup { Append(q, x) : q \in { r \in shorter : Len(r) = n - 1 }, x \in S }

\* the snapshots the site of adapter a may show at clock reading now: tables on
\* the sites read by cell position, cards on the sites read by hints, either on ICRA
Snapshots(a, now) ==
    IF a \in {"CareEdge", "CRISIL"} THEN SeqsUpTo(CardRecords(now), MaxRows)
    ELSE IF a = "ICRA"
    THEN SeqsUpTo(TableRecords(now), MaxRows) \cup SeqsUpTo(CardRecords(now), MaxRows)
    ELSE SeqsUpTo(TableRecords(now), MaxRows)

\* soup.find_all(tag)
find_all_tag(soup, tag) ==
    LET is(r) == r.tag = tag
    IN  SelectSeq(soup, is)

\* soup.find_all(tag, class_=classes)
find_all(soup, tag, classes) ==
    LET is(r) == r.tag = tag /\ r.cls \in classes
    IN  SelectSeq(soup, is)

\* row.find_all('td'): the texts of the cells, get_text(strip=True) applied
cells_of(row) ==
    LET is(e) == e.tag = "td"
        tds == SelectSeq(row.kids, is)
    IN  [i \in 1..Len(tds) |-> Strip(tds[i].text)]

\* rows[1:]
Tail1(rows) == IF rows = <<>> THEN <<>> ELSE Tail(rows)

\* the first of the positions in hits (0: there is none)
FirstIndex(hits) ==
    IF hits = {} THEN 0 ELSE CHOOSE i \in hits : \A j \in hits : i <= j

\* an argument that is not what the method expects: None in place of the
\* element, and a hint that is not a text (texts are sequences of single
\* characters, so no text equals it)
NoElement == Record("None", "", <<>>)

NotAText == <<"None">>

\* an exception leaving a function: what its caller gets in place of a value
Raised == <<"raised">>

\* the outcome of one hint: a hit with the text returned, no hit, or an
\* exception.  element.find raises on None; selector in x.lower() raises for a
\* hint that is not a text as soon as a class or a text is compared with it.
\* x.lower() lowers the class or the text, the hint is taken as it is.  A Tag
\* is true whatever it holds: a class match is returned though its text is empty.
try_selector(element, selector) ==
    LET by_class(e) == e.cls # <<>> /\ Contains(Lower(e.cls), selector)
        by_text(e)  == e.text # <<>> /\ Contains(Lower(e.text), selector)
        tags        == <<"span", "div", "td", "p", "a">>
        by_tag(e)   == e.tag \in {tags[t] : t \in 1..Len(tags)} /\ by_text(e)
        where(P(_)) == { i \in 1..Len(element.kids) : P(element.kids[i]) }
        compared(e) == e.cls # <<>> \/ e.text # <<>>
        c == FirstIndex(where(by_class))
        s == FirstIndex(where(by_text))
        g == FirstIndex(where(by_tag))
        out(hit, raised, text) == [hit |-> hit, raised |-> raised, text |-> text]
    IN  IF element = NoElement \/ (selector = NotAText /\ where(compared) # {})
        THEN out(FALSE, TRUE, <<>>)
        ELSE IF c # 0 THEN out(TRUE, FALSE, Strip(element.kids[c].text))
        ELSE IF s # 0 THEN out(TRUE, FALSE, Strip(element.kids[s].text))
        ELSE IF g # 0 THEN out(TRUE, FALSE, Strip(element.kids[g].text))
        ELSE out(FALSE, FALSE, <<>>)

\* the handler left out: the exception leaves extract_text_from_element
selector_reraise(rest) == Raised

\* except Exception: continue
selector_except(rest) == rest

RECURSIVE extract_text_from_element(_, _)
\* extract_text_from_element: the hints in list order, the first hit returned
extract_text_from_element(element, selectors) ==
    IF selectors = <<>> THEN <<>>
    ELSE LET r == try_selector(element, Head(selectors))
             rest == extract_text_from_element(element, Tail(selectors))
         IN  IF r.raised THEN selector_except(rest)
             ELSE IF r.hit THEN r.text
             ELSE rest

(***************************************************************************)
(* The state.                                                              *)
(***************************************************************************)
VARIABLES
    \* main and the RatingAgencyAlertSystem object
    pc,            \* where main stands: init, run, save, report, write, cleanup, done
    driver,        \* self.driver: unset, none (setup failed), live, quit (released)
    report,        \* main's report: a sequence of lines
    exit,          \* how main ended: "" (running), zero, uncaught
    \* run_all_scrapers
    idx,           \* position in the scrapers list of the adapter running or next to run
    all_alerts,    \* all_alerts
    \* the locals of the adapter that is running
    apc,           \* where the adapter stands
    alerts,        \* alerts
    page_num,      \* page_num
    seg,           \* position in the segments list (BSE, NSE)
    current_date,  \* current_date (BSE)
    last_height,   \* last_height (CareEdge)
    row_vars,      \* company_name, subject, date_text of the NSE row loop
    \* the environment
    clock,         \* midnights passed since the run started
    view,          \* what the browser shows: the page, or the segment whose rows are listed
    selected,      \* the segment chosen in the BSE dropdown (0: the default)
    \* history
    results,       \* what each adapter call gave back, in call order
    trace,         \* what the running (or last) adapter did to the browser
    quits,         \* calls of driver.quit()
    misuse,        \* session states other than live in which the session was used
    \* a function of the program taken on its own
    probe          \* the function applied, its arguments, its result

mainVars == <<pc, driver, report, exit, quits>>

runVars == <<idx, all_alerts, results>>

locVars == <<apc, alerts, page_num, seg, current_date, last_height, row_vars>>

envVars == <<clock, view, selected>>

vars == <<mainVars, runVars, locVars, envVars, trace, misuse, probe>>

\* no function is looked at on its own
NoCall == [fn |-> "none"]

\* the scrapers list of run_all_scrapers
scrapers == <<"ICRA", "CareEdge", "Acuite", "CRISIL", "BSE", "NSE", "SEBI">>

\* the segments list of the BSE and NSE adapters
segments == << <<"E","q","u","i","t","y">>, <<"D","e","b","t">> >>

\* the agency names of the alerts
AgencyText(a) ==
    CASE a = "ICRA"     -> <<"I","C","R","A">>
      [] a = "CareEdge" -> <<"C","a","r","e","E","d","g","e">>
      [] a = "Acuite"   -> <<"A","c","u","i","t","e">>
      [] a = "CRISIL"   -> <<"C","R","I","S","I","L">>
      [] a = "BSE"      -> <<"B","S","E">>
      [] a = "NSE"      -> <<"N","S","E">>
      [] a = "SEBI"     -> <<"S","E","B","I">>

\* f'{exchange} ({segment})'
SegmentLabel(a, segment) == AgencyText(a) \o <<" ", "(">> \o segment \o <<")">>

\* the entity of every SEBI alert
SebiCompany == <<"S","E","B","I"," ","A","n","n","o","u","n","c","e","m","e","n","t">>

\* the dictionary an adapter appends; timestamp is the clock at that moment
Alert(agency, company, date, action, now) ==
    [agency |-> agency, company |-> company, date |-> date, action |-> action,
     timestamp |-> now]

\* no NSE row has bound company_name, subject and date_text yet
Unbound == [bound |-> FALSE, company_name |-> <<>>, subject |-> <<>>, date_text |-> <<>>]

(***************************************************************************)
(* The row loops of the adapters: the alerts one snapshot yields.          *)
(***************************************************************************)
\* a variant of the test that leaves the entity out
emit_guard_no_company(company_name, now, rating_date) == is_today_date(now, rating_date)

\* the test `if company_name and self.is_today_date(rating_date)` of the row loops
emit_guard(company_name, now, rating_date) ==
    company_name # <<>> /\ is_today_date(now, rating_date)

\* the processing of the record raises, outside extract_text_from_element and
\* before the append: the record holds a descendant of tag "fault", which no
\* matcher and no cell lookup sees
faults(row) == \E k \in 1..Len(row.kids) : row.kids[k].tag = "fault"

\* a variant of the row loops without the handler in the loop body: the fault
\* ends the loop
row_aborts(rest) == <<>>

\* the handler in the body of a row loop: log a warning, go on with the next record
row_except(rest) == rest

RECURSIVE hinted_alerts(_, _, _, _, _, _)
\* the loop over rating_rows / rating_items of the adapters that use hints
hinted_alerts(rows, agency, h_company, h_date, h_action, now) ==
    IF rows = <<>> THEN <<>>
    ELSE LET row == Head(rows)
             company_name  == extract_text_from_element(row, h_company)
             rating_date   == extract_text_from_element(row, h_date)
             rating_action == extract_text_from_element(row, h_action)
             rest == hinted_alerts(Tail(rows), agency, h_company, h_date, h_action, now)
         IN  IF faults(row) THEN row_except(rest)
             ELSE IF emit_guard(company_name, now, rating_date)
             THEN <<Alert(agency, company_name, rating_date, rating_action, now)>> \o rest
             ELSE rest

\* scrape_icra_ratings: one page
icra_alerts(soup, now) ==
    LET grid == find_all(soup, "tr", {"gridrow"})
        rating_rows == IF grid # <<>> THEN grid ELSE find_all(soup, "div", {"rating-item"})
    IN  hinted_alerts(rating_rows, AgencyText("ICRA"),
                      <<W_company, W_entity, W_name>>, <<W_date, W_rated_on>>,
                      <<W_action, W_rating, W_grade>>, now)

\* scrape_careedge_ratings: the snapshot after scrolling
careedge_alerts(soup, now) ==
    LET rating_items ==
            find_all(soup, "div", {"rating-item", "rating-card", "recent-rating-item"})
    IN  hinted_alerts(rating_items, AgencyText("CareEdge"),
                      <<W_company, W_entity, W_name>>, <<W_date, W_rated_on, W_timestamp>>,
                      <<W_action, W_rating, W_grade>>, now)

\* scrape_crisil_ratings: the snapshot after loading everything
crisil_alerts(soup, now) ==
    LET rating_items ==
            find_all(soup, "div", {"rating-item", "rating-card", "announcement-item"})
    IN  hinted_alerts(rating_items, AgencyText("CRISIL"),
                      <<W_company, W_entity, W_name, W_title>>,
                      <<W_date, W_rated_on, W_timestamp>>,
                      <<W_action, W_rating, W_grade, W_description>>, now)

RECURSIVE acuite_rows_newest_first(_, _)
\* a variant of the loop that puts each new alert in front
acuite_rows_newest_first(rows, now) ==
    IF rows = <<>> THEN <<>>
    ELSE LET cells == cells_of(Head(rows))
             rest  == acuite_rows_newest_first(Tail(rows), now)
         IN  IF Len(cells) >= 3 /\ emit_guard(cells[2], now, cells[1])
             THEN rest \o <<Alert(AgencyText("Acuite"), cells[2], cells[1], cells[3], now)>>
             ELSE rest

RECURSIVE acuite_rows(_, _)
\* the loop over rating_rows[1:] of scrape_acuite_ratings
acuite_rows(rows, now) ==
    IF rows = <<>> THEN <<>>
    ELSE LET cells == cells_of(Head(rows))
             rest  == acuite_rows(Tail(rows), now)
         IN  IF faults(Head(rows)) THEN row_except(rest)
             ELSE IF Len(cells) >= 3
             THEN LET rating_date   == cells[1]
                      company_name  == cells[2]
                      rating_action == cells[3]
                  IN  IF emit_guard(company_name, now, rating_date)
                      THEN <<Alert(AgencyText("Acuite"), company_name, rating_date,
                                   rating_action, now)>> \o rest
                      ELSE rest
             ELSE rest

\* scrape_acuite_ratings: one page
acuite_alerts(soup, now) == acuite_rows(Tail1(find_all_tag(soup, "tr")), now)

RECURSIVE bse_rows(_, _, _, _)
\* the loop over announcement_rows of scrape_bse_announcements
bse_rows(rows, segment, date, now) ==
    IF rows = <<>> THEN <<>>
    ELSE LET cells == cells_of(Head(rows))
             rest  == bse_rows(Tail(rows), segment, date, now)
         IN  IF faults(Head(rows)) THEN row_except(rest)
             ELSE IF Len(cells) >= 3
             THEN LET company_name == cells[2]
                      subject      == cells[3]
                  IN  IF company_name # <<>>
                      THEN <<Alert(SegmentLabel("BSE", segment), company_name, date,
                                   subject, now)>> \o rest
                      ELSE rest
             ELSE rest

\* scrape_bse_announcements: the snapshot of one segment
bse_alerts(soup, segment, date, now) ==
    bse_rows(Tail1(find_all_tag(soup, "tr")), segment, date, now)

RECURSIVE sebi_rows(_, _)
\* the loop over announcement_rows of scrape_sebi_announcements
sebi_rows(rows, now) ==
    IF rows = <<>> THEN <<>>
    ELSE LET cells == cells_of(Head(rows))
             rest  == sebi_rows(Tail(rows), now)
         IN  IF faults(Head(rows)) THEN row_except(rest)
             ELSE IF Len(cells) >= 2
             THEN LET date_text         == cells[1]
                      announcement_text == cells[2]
                  IN  IF announcement_text # <<>> /\ is_today_date(now, date_text)
                      THEN <<Alert(AgencyText("SEBI"), SebiCompany, date_text,
                                   announcement_text, now)>> \o rest
                      ELSE rest
             ELSE rest

\* scrape_sebi_announcements: one page
sebi_alerts(soup, now) == sebi_rows(Tail1(find_all_tag(soup, "tr")), now)

\* one row of the NSE loop: company_name, subject and date_text after the assignments
nse_assign(row, rv) ==
    IF row.tag = "tr"
    THEN LET cells == cells_of(row)
         IN  IF Len(cells) >= 3
             THEN [bound |-> TRUE, company_name |-> cells[2], subject |-> cells[3],
                   date_text |-> cells[1]]
             ELSE rv
    ELSE [bound |-> TRUE,
          company_name |-> extract_text_from_element(row, <<W_company, W_symbol>>),
          subject      |-> extract_text_from_element(row, <<W_subject, W_title>>),
          date_text    |-> extract_text_from_element(row, <<W_date, W_time>>)]

RECURSIVE nse_rows(_, _, _, _)
\* the loop over announcement_rows of scrape_nse_announcements, from the locals rv:
\* the alerts appended and the locals after the loop.  A row that reads an unbound
\* local faults and is skipped by the row's handler.
nse_rows(rows, segment, now, rv) ==
    IF rows = <<>> THEN [alerts |-> <<>>, row_vars |-> rv]
    ELSE LET v    == IF faults(Head(rows)) THEN rv ELSE nse_assign(Head(rows), rv)
             rest == nse_rows(Tail(rows), segment, now, v)
         IN  IF faults(Head(rows)) THEN row_except(rest)
             ELSE IF v.bound /\ emit_guard(v.company_name, now, v.date_text)
             THEN [rest EXCEPT !.alerts =
                      <<Alert(SegmentLabel("NSE", segment), v.company_name, v.date_text,
                              v.subject, now)>> \o rest.alerts]
             ELSE rest

\* scrape_nse_announcements: the snapshot of one segment
nse_alerts(soup, segment, now, rv) ==
    LET trs == find_all_tag(soup, "tr")
        announcement_rows ==
            IF trs # <<>> THEN trs ELSE find_all(soup, "div", {"announcement-item"})
    IN  nse_rows(announcement_rows, segment, now, rv)

(***************************************************************************)
(* The initial state: main has not yet constructed the object.             *)
(***************************************************************************)
Init ==
    /\ pc = "init" /\ driver = "unset" /\ report = <<>> /\ exit = "" /\ quits = 0
    /\ idx = 1 /\ all_alerts = <<>> /\ results = <<>>
    /\ apc = "open" /\ alerts = <<>> /\ page_num = 0 /\ seg = 1
    /\ current_date = <<>> /\ last_height = 0 /\ row_vars = Unbound
    /\ clock = 0 /\ view = 0 /\ selected = 0
    /\ trace = <<>> /\ misuse = {}
    /\ probe = NoCall

(***************************************************************************)
(* The environment's clock.                                                *)
(***************************************************************************)
\* midnight passes while the program runs
Midnight ==
    /\ pc # "done"
    /\ clock < MaxTicks
    /\ clock' = clock + 1
    /\ UNCHANGED <<mainVars, runVars, locVars, view, selected, trace, misuse>>
    /\ UNCHANGED probe

(***************************************************************************)
(* Pieces the adapter steps share.                                         *)
(***************************************************************************)
\* an entry of the history of the adapter's dealings with the browser: what was
\* done, its measure (the page or segment shown, the height, the click's number),
\* and the position in the segments list at which it was done
Ev(op, n) == [op |-> op, n |-> n, seg |-> seg]

\* the adapter a is the one run_all_scrapers is calling
Running(a) == pc = "run" /\ idx <= Len(scrapers) /\ scrapers[idx] = a

\* a variant of the adapters without the guard
session_unchecked == FALSE

\* the guard `if not self.driver` at the head of every adapter
no_session == driver = "none"

\* one use of the browser session
Touch == misuse' = IF driver = "live" THEN misuse ELSE misuse \cup {driver}

\* a variant of the return in which run_all_scrapers puts the result in front
Return_in_front(result) ==
    /\ all_alerts' = result \o all_alerts
    /\ results' = Append(results,
                         [agency |-> scrapers[idx], raised |-> FALSE, alerts |-> result])
    /\ idx' = idx + 1
    /\ apc' = "open"

\* the adapter returns result; run_all_scrapers extends all_alerts with it and
\* goes on to the next entry of scrapers
Return(result) ==
    /\ all_alerts' = all_alerts \o result
    /\ results' = Append(results,
                         [agency |-> scrapers[idx], raised |-> FALSE, alerts |-> result])
    /\ idx' = idx + 1
    /\ apc' = "open"

\* a variant of the handler that raises the fault again: run_all_scrapers catches
\* it, extends nothing and goes on
adapter_reraise ==
    /\ results' = Append(results,
                         [agency |-> scrapers[idx], raised |-> TRUE, alerts |-> <<>>])
    /\ idx' = idx + 1
    /\ apc' = "open"
    /\ UNCHANGED all_alerts

\* a variant of the handler that returns what was collected before the fault
adapter_except_partial == Return(alerts)

\* the handler of the adapter's outer try: log the fault, return []
adapter_except == Return(<<>>)

\* the adapter's first lines: the session guard, then driver.get(url)
Open(a, next) ==
    /\ Running(a) /\ apc = "open"
    /\ alerts' = <<>> /\ seg' = 1 /\ last_height' = 0 /\ row_vars' = Unbound
    /\ page_num' = IF a = "Acuite" /\ ~no_session THEN 1 ELSE 0
    /\ current_date' = IF a = "BSE" /\ ~no_session
                       THEN get_current_date_str(clock).dd_mm_yyyy_slash
                       ELSE <<>>
    /\ trace' = <<>> /\ selected' = 0
    /\ UNCHANGED <<mainVars, clock>>
    /\ IF no_session
       THEN Return(<<>>) /\ view' = 0 /\ UNCHANGED misuse
       ELSE /\ Touch
            /\ \/ /\ apc' = next
                  /\ view' = IF a \in {"BSE", "NSE"} THEN 0 ELSE 1
                  /\ UNCHANGED <<idx, all_alerts, results>>
               \/ adapter_except /\ view' = 0
    /\ UNCHANGED probe

(***************************************************************************)
(* The paged adapters: ICRA, Acuite, SEBI.                                 *)
(***************************************************************************)
L_Next == <<"N","e","x","t">>

\* the controls a page may offer for the next page; tag "none": no control.
\* label is the text of an anchor or a button and the value of an input.
\* An anchor, a button and an input labelled Next, enabled or not; an enabled
\* anchor labelled next; an enabled input whose value holds more than Next.
NextControls ==
    { [tag |-> "none", label |-> <<>>, enabled |-> FALSE],
      [tag |-> "a", label |-> Lower(L_Next), enabled |-> TRUE],
      [tag |-> "input", label |-> L_Next \o <<" ",">">>, enabled |-> TRUE] } \cup
    [tag : {"a", "button", "input"}, label : {L_Next}, enabled : BOOLEAN]

\* driver.find_element(By.XPATH, ...) for the next page finds the control
find_next(a, ctl) ==
    IF a = "Acuite"
    THEN ctl.tag \in {"a", "button"} /\ Contains(ctl.label, L_Next)
    ELSE \/ ctl.tag = "a" /\ Contains(ctl.label, L_Next)
         \/ ctl.tag = "input" /\ ctl.label = L_Next

\* the alerts of one page of the paged adapter a
page_alerts(a, soup, now) ==
    CASE a = "ICRA"   -> icra_alerts(soup, now)
      [] a = "Acuite" -> acuite_alerts(soup, now)
      [] a = "SEBI"   -> sebi_alerts(soup, now)
      [] a = "CareEdge" -> careedge_alerts(soup, now)
      [] a = "CRISIL" -> crisil_alerts(soup, now)

\* the readings of the clock
Ticks == 0..MaxTicks

\* the row loops tabulated: the adapter, the clock reading, and what one of the
\* snapshots the site may show then yields
PageYields ==
    UNION { { <<p[1], p[2], page_alerts(p[1], soup, p[2])>> : soup \in Snapshots(p[1], p[2]) } :
            p \in {"ICRA", "Acuite", "SEBI", "CareEdge", "CRISIL"} \X Ticks }

\* driver.page_source parsed and the row loop run over it: what adapter a may
\* find at clock reading now
Extracted(a, now) == { y[3] : y \in { t \in PageYields : t[1] = a /\ t[2] = now } }

\* the same for BSE: the position of the segment, the date the adapter stamps,
\* the clock reading, the yield
BseYields ==
    UNION { { <<p[1], p[2], p[3], bse_alerts(soup, segments[p[1]], p[2], p[3])>> :
              soup \in Snapshots("BSE", p[3]) } :
            p \in (1..Len(segments))
                  \X { get_current_date_str(k).dd_mm_yyyy_slash : k \in Ticks }
                  \X Ticks }

BseExtracted(s, date, now) ==
    { y[4] : y \in { t \in BseYields : t[1] = s /\ t[2] = date /\ t[3] = now } }

\* the values the locals of the NSE row loop may hold between rows
RowVars ==
    {Unbound} \cup UNION { { nse_assign(r, Unbound) : r \in TableRecords(k) } : k \in Ticks }

\* the same for NSE: the position of the segment, the clock reading, the locals
\* before the loop, the yield (alerts and locals after the loop)
NseYields ==
    UNION { { <<p[1], p[2], p[3], nse_alerts(soup, segments[p[1]], p[2], p[3])>> :
              soup \in Snapshots("NSE", p[2]) } :
            p \in (1..Len(segments)) \X Ticks \X RowVars }

NseExtracted(s, now, rv) ==
    { y[4] : y \in { t \in NseYields : t[1] = s /\ t[2] = now /\ t[3] = rv } }

\* a variant of the date filter without its own handler: the absent control is
\* a fault of the adapter
filter_not_found_raises(next) == adapter_except

\* the try around the date filter is left, by its end or by
\* `except NoSuchElementException` (logged): the adapter goes on
filter_not_found(next) == apc' = next /\ UNCHANGED <<idx, all_alerts, results>>

\* the date filter of ICRA and SEBI: from-date, to-date, search.  A control that
\* is absent raises NoSuchElementException, which is caught: the adapter goes on
\* with the default view.  Any other fault goes to the adapter's handler.  The
\* history keeps what the filter met.
PagedFilter(a) ==
    /\ Running(a) /\ apc = "filter"
    /\ Touch
    /\ UNCHANGED <<mainVars, envVars, seg, current_date, last_height, row_vars>>
    /\ \/ \E how \in {"filter", "no_from", "no_to", "no_search"} :
            /\ alerts' = <<>> /\ page_num' = 1
            /\ trace' = Append(trace, Ev("filter", how))
            /\ IF how = "filter"
               THEN apc' = "extract" /\ UNCHANGED <<idx, all_alerts, results>>
               ELSE filter_not_found("extract")
       \/ adapter_except /\ UNCHANGED <<alerts, page_num, trace>>
    /\ UNCHANGED probe

\* the head of the while loop: parse driver.page_source and run the row loop.
\* The history is that of the traversal: the note of the filter ends with the
\* first page read.
PagedExtract(a) ==
    /\ Running(a) /\ apc = "extract"
    /\ Touch
    /\ UNCHANGED <<mainVars, envVars, page_num, seg, current_date, last_height, row_vars>>
    /\ \/ \E new \in Extracted(a, clock) :
                /\ Len(all_alerts) + Len(alerts) + Len(new) <= MaxAlerts
                /\ alerts' = alerts \o new
                /\ trace' = Append(SelectSeq(trace, LAMBDA e : e.op # "filter"),
                                   Ev("extract", view))
                /\ apc' = "next"
                /\ UNCHANGED <<idx, all_alerts, results>>
       \/ adapter_except /\ UNCHANGED <<alerts, trace>>
    /\ UNCHANGED probe

\* a variant of the loop that looks for the next control again at once
loop_again_unread == apc' = "next"

\* `while True` starts over: the page now shown is parsed first
loop_again == apc' = "extract"

\* the tail of the while loop: look the next control up; break when it is absent
\* or disabled, else click it and count the page.  The click leaves the browser on
\* the page it was on or takes it to the following one.  The history keeps the
\* control the loop was left on and the page each click was made on.
PagedNext(a) ==
    /\ Running(a) /\ apc = "next"
    /\ Touch
    /\ UNCHANGED <<mainVars, clock, selected, alerts, seg, current_date, last_height,
                   row_vars>>
    /\ \E ctl \in NextControls :
          IF ~find_next(a, ctl) \/ ~ctl.enabled
          THEN /\ Return(alerts)
               /\ trace' = Append(trace, Ev("break", ctl))
               /\ UNCHANGED <<page_num, view>>
          ELSE /\ page_num < MaxIter
               /\ \/ \E v \in {view, view + 1} :
                       /\ view' = v
                       /\ page_num' = page_num + 1
                       /\ loop_again
                       /\ trace' = Append(trace, Ev("click", view))
                       /\ UNCHANGED <<idx, all_alerts, results>>
                  \/ adapter_except /\ UNCHANGED <<page_num, view, trace>>
    /\ UNCHANGED probe

icra_open == Open("ICRA", "filter")

icra_filter == PagedFilter("ICRA")

icra_extract == PagedExtract("ICRA")

icra_next == PagedNext("ICRA")

acuite_open == Open("Acuite", "extract")

acuite_extract == PagedExtract("Acuite")

acuite_next == PagedNext("Acuite")

sebi_open == Open("SEBI", "filter")

sebi_filter == PagedFilter("SEBI")

sebi_extract == PagedExtract("SEBI")

sebi_next == PagedNext("SEBI")

(***************************************************************************)
(* CareEdge: infinite scroll.                                              *)
(***************************************************************************)
careedge_open == Open("CareEdge", "wait")

\* wait.until(presence of .recent-ratings), then the first height measurement.
\* TimeoutException is caught inside the adapter, which then returns its (empty)
\* alerts; any other fault goes to the adapter's handler.
careedge_wait ==
    /\ Running("CareEdge") /\ apc = "wait"
    /\ Touch
    /\ UNCHANGED <<mainVars, envVars, alerts, page_num, seg, current_date, row_vars>>
    /\ \/ \E h \in 1..MaxHeight :
            /\ last_height' = h
            /\ trace' = Append(trace, Ev("height", h))
            /\ apc' = "scroll"
            /\ UNCHANGED <<idx, all_alerts, results>>
       \/ /\ Return(alerts)
          /\ UNCHANGED <<last_height, trace>>
       \/ adapter_except /\ UNCHANGED <<last_height, trace>>
    /\ UNCHANGED probe

\* a variant of the loop's test with a cap of two measurements
scroll_capped(new_height, last) == new_height = last \/ Len(trace) >= 2

\* the loop leaves when the height measured after the scroll is the last height
scroll_exhausted(new_height, last) == new_height = last

\* one iteration of the scroll loop: scroll to the bottom, measure, compare
careedge_scroll ==
    /\ Running("CareEdge") /\ apc = "scroll"
    /\ Len(trace) <= MaxIter
    /\ Touch
    /\ UNCHANGED <<mainVars, envVars, alerts, page_num, seg, current_date, row_vars>>
    /\ \/ \E new_height \in 1..MaxHeight :
            /\ trace' = Append(trace, Ev("height", new_height))
            /\ IF scroll_exhausted(new_height, last_height)
               THEN apc' = "extract" /\ UNCHANGED last_height
               ELSE apc' = "scroll" /\ last_height' = new_height
            /\ UNCHANGED <<idx, all_alerts, results>>
       \/ adapter_except /\ UNCHANGED <<last_height, trace>>
    /\ UNCHANGED probe

\* after the loop: parse driver.page_source, run the item loop, return alerts
careedge_extract ==
    /\ Running("CareEdge") /\ apc = "extract"
    /\ Touch
    /\ UNCHANGED <<mainVars, envVars, page_num, seg, current_date, last_height, row_vars>>
    /\ \/ \E new \in Extracted("CareEdge", clock) :
                /\ Len(all_alerts) + Len(new) <= MaxAlerts
                /\ alerts' = alerts \o new
                /\ trace' = Append(trace, Ev("extract", view))
                /\ Return(alerts \o new)
       \/ adapter_except /\ UNCHANGED <<alerts, trace>>
    /\ UNCHANGED probe

(***************************************************************************)
(* CRISIL: load more.                                                      *)
(***************************************************************************)
\* the 'Load More' control a page may offer
LoadMoreControls == [present : BOOLEAN, displayed : BOOLEAN, enabled : BOOLEAN]

\* what the control is like: 3 when it is there, displayed and enabled
ControlState(ctl) ==
    IF ~ctl.present THEN 0 ELSE IF ~ctl.displayed THEN 1 ELSE IF ~ctl.enabled THEN 2 ELSE 3

\* a variant of the loop's test that leaves is_enabled() out
load_more_displayed(ctl) == ctl.present /\ ctl.displayed

\* the loop clicks the control when it is found, displayed and enabled
load_more_clickable(ctl) == ctl.present /\ ctl.displayed /\ ctl.enabled

\* the clicks made so far
Clicks(tr) == Len(SelectSeq(tr, LAMBDA e : e.op = "click"))

crisil_open == Open("CRISIL", "load_more")

\* one iteration of the load-more loop
crisil_load_more ==
    /\ Running("CRISIL") /\ apc = "load_more"
    /\ Touch
    /\ UNCHANGED <<mainVars, envVars, alerts, page_num, seg, current_date, last_height,
                   row_vars>>
    /\ \E ctl \in LoadMoreControls :
          IF load_more_clickable(ctl)
          THEN /\ Clicks(trace) < MaxIter
               /\ \/ /\ trace' = Append(trace, Ev("click", ControlState(ctl)))
                     /\ apc' = "load_more"
                     /\ UNCHANGED <<idx, all_alerts, results>>
                  \/ adapter_except /\ UNCHANGED trace
          ELSE /\ apc' = "extract"
               /\ UNCHANGED <<idx, all_alerts, results, trace>>
    /\ UNCHANGED probe

\* after the loop: parse driver.page_source, run the item loop, return alerts
crisil_extract ==
    /\ Running("CRISIL") /\ apc = "extract"
    /\ Touch
    /\ UNCHANGED <<mainVars, envVars, page_num, seg, current_date, last_height, row_vars>>
    /\ \/ \E new \in Extracted("CRISIL", clock) :
                /\ Len(all_alerts) + Len(new) <= MaxAlerts
                /\ alerts' = alerts \o new
                /\ trace' = Append(trace, Ev("extract", view))
                /\ Return(alerts \o new)
       \/ adapter_except /\ UNCHANGED <<alerts, trace>>
    /\ UNCHANGED probe

(***************************************************************************)
(* BSE: a date filter, then the segments Equity and Debt.                  *)
(***************************************************************************)
bse_open == Open("BSE", "set_date")

\* the from and to date fields; an absent field is logged and the adapter goes on
bse_set_date ==
    /\ Running("BSE") /\ apc = "set_date"
    /\ Touch
    /\ UNCHANGED <<mainVars, envVars, alerts, page_num, current_date, last_height,
                   row_vars>>
    /\ \/ \E how \in {"filter", "no_from", "no_to"} :
            /\ seg' = 1
            /\ trace' = Append(trace, Ev("filter", how))
            /\ IF how = "filter"
               THEN apc' = "segment" /\ UNCHANGED <<idx, all_alerts, results>>
               ELSE filter_not_found("segment")
       \/ adapter_except /\ UNCHANGED <<seg, trace>>
    /\ UNCHANGED probe

\* the handler of the segment's try: log, go on with the next segment
segment_except(head) == seg' = seg + 1 /\ apc' = head

\* one segment, up to the snapshot: choose it in the dropdown when the dropdown
\* exists (and has an option for it), click submit when submit exists.  The page
\* lists the rows of the chosen segment once submit is clicked.
bse_segment ==
    /\ Running("BSE") /\ apc = "segment" /\ seg <= Len(segments)
    /\ Touch
    /\ UNCHANGED <<mainVars, runVars, clock, alerts, page_num, current_date, last_height,
                   row_vars>>
    /\ \/ \E dropdown \in BOOLEAN, submit \in BOOLEAN :
            LET sel == IF dropdown THEN seg ELSE selected
            IN  /\ selected' = sel
                /\ view' = IF submit THEN sel ELSE view
                /\ apc' = "bse_extract"
                /\ UNCHANGED <<seg, trace>>
       \/ segment_except("segment") /\ UNCHANGED <<view, selected, trace>>
    /\ UNCHANGED probe

\* the snapshot of the segment and its row loop; the note of the filter ends
\* with the first snapshot read
bse_extract ==
    /\ Running("BSE") /\ apc = "bse_extract"
    /\ Touch
    /\ UNCHANGED <<mainVars, runVars, envVars, page_num, current_date, last_height,
                   row_vars>>
    /\ \/ \E new \in BseExtracted(seg, current_date, clock) :
                /\ Len(all_alerts) + Len(alerts) + Len(new) <= MaxAlerts
                /\ alerts' = alerts \o new
                /\ trace' = Append(SelectSeq(trace, LAMBDA e : e.op # "filter"),
                                   Ev("extract", view))
                /\ seg' = seg + 1 /\ apc' = "segment"
       \/ segment_except("segment") /\ UNCHANGED <<alerts, trace>>
    /\ UNCHANGED probe

\* after the loop over segments: return alerts
bse_return ==
    /\ Running("BSE") /\ apc = "segment" /\ seg > Len(segments)
    /\ Return(alerts)
    /\ UNCHANGED <<mainVars, envVars, alerts, page_num, seg, current_date, last_height,
                   row_vars, trace, misuse>>
    /\ UNCHANGED probe

(***************************************************************************)
(* NSE: the tabs Equity and Debt.                                          *)
(***************************************************************************)
nse_open == Open("NSE", "tab")

\* a variant of the handler without the `continue`
tab_not_found_falls_through == apc' = "nse_extract" /\ UNCHANGED seg

\* the handler of the tab lookup: the tab is not found, log it and `continue`
tab_not_found == seg' = seg + 1 /\ apc' = "tab"

\* one segment, up to the snapshot: find the tab and click it
nse_tab ==
    /\ Running("NSE") /\ apc = "tab" /\ seg <= Len(segments)
    /\ Touch
    /\ UNCHANGED <<mainVars, runVars, clock, selected, alerts, page_num, current_date,
                   last_height, row_vars>>
    /\ \/ /\ trace' = Append(trace, Ev("no_tab", seg))
          /\ tab_not_found
          /\ UNCHANGED view
       \/ /\ trace' = Append(trace, Ev("click", seg))
          /\ view' = seg
          /\ apc' = "nse_extract"
          /\ UNCHANGED seg
       \/ segment_except("tab") /\ UNCHANGED <<view, trace>>
    /\ UNCHANGED probe

\* the snapshot of the segment and its row loop
nse_extract ==
    /\ Running("NSE") /\ apc = "nse_extract"
    /\ Touch
    /\ UNCHANGED <<mainVars, runVars, envVars, page_num, current_date, last_height>>
    /\ \/ \E got \in NseExtracted(seg, clock, row_vars) :
                /\ Len(all_alerts) + Len(alerts) + Len(got.alerts) <= MaxAlerts
                /\ alerts' = alerts \o got.alerts
                /\ row_vars' = got.row_vars
                /\ trace' = Append(trace, Ev("extract", view))
                /\ seg' = seg + 1 /\ apc' = "tab"
       \/ segment_except("tab") /\ UNCHANGED <<alerts, row_vars, trace>>
    /\ UNCHANGED probe

\* after the loop over segments: return alerts
nse_return ==
    /\ Running("NSE") /\ apc = "tab" /\ seg > Len(segments)
    /\ Return(alerts)
    /\ UNCHANGED <<mainVars, envVars, alerts, page_num, seg, current_date, last_height,
                   row_vars, trace, misuse>>
    /\ UNCHANGED probe

(***************************************************************************)
(* generate_alert_report.                                                  *)
(***************************************************************************)
NoAlertsMsg == <<"N","o"," ","a","l","e","r","t","s"," ","f","o","u","n","d"," ","f","o","r"," ","t","o","d","a","y",".">>

\* c * n
Rule(c, n) == [i \in 1..n |-> c]

RECURSIVE DecimalText(_)
\* str(n) for a natural number
DecimalText(n) ==
    IF n < 10 THEN <<Digit(n)>> ELSE DecimalText(n \div 10) \o <<Digit(n % 10)>>

\* a variant of the grouping that puts a new agency first
group_add_new_first(groups, alert) ==
    IF \E i \in 1..Len(groups) : groups[i].agency = alert.agency
    THEN LET i == CHOOSE j \in 1..Len(groups) : groups[j].agency = alert.agency
         IN  [groups EXCEPT ![i].alerts = Append(@, alert)]
    ELSE <<[agency |-> alert.agency, alerts |-> <<alert>>]>> \o groups

\* by_agency after one more alert: appended to its agency's list, a new agency last
group_add(groups, alert) ==
    IF \E i \in 1..Len(groups) : groups[i].agency = alert.agency
    THEN LET i == CHOOSE j \in 1..Len(groups) : groups[j].agency = alert.agency
         IN  [groups EXCEPT ![i].alerts = Append(@, alert)]
    ELSE Append(groups, [agency |-> alert.agency, alerts |-> <<alert>>])

RECURSIVE by_agency(_)
\* the dictionary by_agency, as the sequence of its items in insertion order
by_agency(list) ==
    IF list = <<>> THEN <<>>
    ELSE group_add(by_agency(SubSeq(list, 1, Len(list) - 1)), list[Len(list)])

RECURSIVE alert_lines(_)
\* the four lines of each alert of a group
alert_lines(list) ==
    IF list = <<>> THEN <<>>
    ELSE << <<"C","o","m","p","a","n","y",":"," ">> \o Head(list).company,
            <<"D","a","t","e",":"," ">> \o Head(list).date,
            <<"A","c","t","i","o","n",":"," ">> \o Head(list).action,
            <<>> >> \o alert_lines(Tail(list))

RECURSIVE group_lines(_)
\* the lines of the groups
group_lines(groups) ==
    IF groups = <<>> THEN <<>>
    ELSE LET g == Head(groups)
         IN  << g.agency \o <<" ", "(">> \o DecimalText(Len(g.alerts))
                    \o <<" ","a","l","e","r","t","s",")",":">>,
                Rule("-", 30) >>
             \o alert_lines(g.alerts) \o << <<>> >> \o group_lines(Tail(groups))

RECURSIVE Join(_)
\* "\n".join(lines)
Join(lines) ==
    IF lines = <<>> THEN <<>>
    ELSE IF Len(lines) = 1 THEN lines[1]
    ELSE lines[1] \o <<"\n">> \o Join(Tail(lines))

\* generate_alert_report, called when the clock reads now
generate_alert_report(list, now) ==
    IF list = <<>> THEN NoAlertsMsg
    ELSE Join(<< Rule("=", 60),
                 <<"R","A","T","I","N","G"," ","A","G","E","N","C","Y"," ","A","L","E","R","T","S"," ","-"," ">> \o Fmt_dBy_space(DateOf(now)),
                 Rule("=", 60),
                 <<>> >> \o group_lines(by_agency(list)))

(***************************************************************************)
(* main, the constructor, the end of run_all_scrapers, cleanup.            *)
(***************************************************************************)
\* RatingAgencyAlertSystem(): setup_selenium creates the session, or fails and
\* leaves self.driver None
main_init ==
    /\ pc = "init"
    /\ \E created \in BOOLEAN : driver' = IF created THEN "live" ELSE "none"
    /\ pc' = "run"
    /\ UNCHANGED <<report, exit, quits, runVars, locVars, envVars, trace, misuse>>
    /\ UNCHANGED probe

\* a variant of main without the `finally`
main_except_no_finally == pc' = "done" /\ UNCHANGED exit

\* a variant of main with `try ... finally` only: the fault goes on through the
\* finally and leaves main
main_no_except == pc' = "cleanup" /\ exit' = "uncaught"

\* main's `except Exception` and `finally`: the fault is logged, cleanup comes next
main_except == pc' = "cleanup" /\ UNCHANGED exit

\* the end of run_all_scrapers: the alerts are dumped to the JSON file and
\* returned to main; a fault of the file system leaves run_all_scrapers
run_save ==
    /\ pc = "run" /\ idx > Len(scrapers)
    /\ \/ pc' = "report" /\ UNCHANGED exit
       \/ main_except
    /\ apc' = "open" /\ alerts' = <<>> /\ page_num' = 0 /\ seg' = 1
    /\ current_date' = <<>> /\ last_height' = 0 /\ row_vars' = Unbound
    /\ trace' = <<>> /\ view' = 0 /\ selected' = 0
    /\ UNCHANGED <<driver, report, quits, runVars, clock, misuse>>
    /\ UNCHANGED probe

\* main builds the report and prints it
main_report ==
    /\ pc = "report"
    /\ report' = generate_alert_report(all_alerts, clock)
    /\ pc' = "write"
    /\ UNCHANGED <<driver, exit, quits, runVars, locVars, envVars, trace, misuse>>
    /\ UNCHANGED probe

\* main writes the report file
main_write ==
    /\ pc = "write"
    /\ \/ pc' = "cleanup" /\ UNCHANGED exit
       \/ main_except
    /\ UNCHANGED <<driver, report, quits, runVars, locVars, envVars, trace, misuse>>
    /\ UNCHANGED probe

\* cleanup, from main's finally: the session is released when there is one.
\* A fault of driver.quit() leaves main uncaught.
main_cleanup ==
    /\ pc = "cleanup"
    /\ pc' = "done"
    /\ IF driver \in {"live", "quit"}
       THEN /\ quits' = quits + 1
            /\ driver' = "quit"
            /\ Touch
            /\ \E fault \in BOOLEAN : exit' = IF fault THEN "uncaught" ELSE "zero"
       ELSE /\ exit' = "zero"
            /\ UNCHANGED <<driver, quits, misuse>>
    /\ UNCHANGED <<report, runVars, locVars, envVars, trace>>
    /\ UNCHANGED probe

(***************************************************************************)
(* The specification.                                                      *)
(***************************************************************************)
Next ==
    \/ Midnight
    \/ main_init
    \/ icra_open \/ icra_filter \/ icra_extract \/ icra_next
    \/ careedge_open \/ careedge_wait \/ careedge_scroll \/ careedge_extract
    \/ acuite_open \/ acuite_extract \/ acuite_next
    \/ crisil_open \/ crisil_load_more \/ crisil_extract
    \/ bse_open \/ bse_set_date \/ bse_segment \/ bse_extract \/ bse_return
    \/ nse_open \/ nse_tab \/ nse_extract \/ nse_return
    \/ sebi_open \/ sebi_filter \/ sebi_extract \/ sebi_next
    \/ run_save \/ main_report \/ main_write \/ main_cleanup

Spec == Init /\ [][Next]_vars

(***************************************************************************)
(* The functions of the program taken on their own: a call is drawn with   *)
(* its arguments, the function is applied, the result is kept.             *)
(***************************************************************************)
\* a call of function fn with the arguments args (a record), not yet made
Call(fn, args) == [fn |-> fn, args |-> args, done |-> FALSE, ret |-> <<>>]

\* the call is made: the result is kept with it
Made(result) ==
    /\ ~probe.done
    /\ probe' = [probe EXCEPT !.done = TRUE, !.ret = result]
    /\ UNCHANGED <<mainVars, runVars, locVars, envVars, trace, misuse>>

\* alerts of three sources and two companies
SomeAlerts ==
    { Alert(a, c, Stamp(0), Grade, 0) :
        a \in {AgencyText("ICRA"), AgencyText("SEBI"), SegmentLabel("BSE", segments[1])},
        c \in {Acme, <<"B">>} }

\* the renderings of a date in the seven formats DD-MM-YYYY, YYYY-MM-DD,
\* DD/MM/YYYY, MM/DD/YYYY, DD-Mon-YYYY, DD Mon YYYY, DD Month YYYY
Renderings(dt) ==
    { Fmt_dmy_dash(dt), Fmt_ymd_dash(dt), Fmt_dmy_slash(dt), Fmt_mdy_slash(dt),
      Fmt_dby_dash(dt), Fmt_dby_space(dt), Fmt_dBy_space(dt) }

\* the same day of the year before
YearBefore(dt) == [dt EXCEPT !.y = @ - 1]

\* what may stand before and after a date in a text
Prefixes == { <<>>, <<" ">>, <<" ","o","n",","," ">> }

Suffixes == { <<>>, <<",">>, <<","," ","1","0",":","3","0"," ">> }

\* the day of the same year whose day and month numbers are those of dt swapped
\* (dt itself when its day number is no month)
Swapped(dt) == IF dt.d <= 12 THEN [dt EXCEPT !.d = dt.m, !.m = dt.d] ELSE dt

\* the texts is_today_date is given: nothing, blanks, a comma, and the renderings
\* of the days of the run, of the day after, of the same days one year before
\* and of the days with their numbers swapped, alone and inside longer texts,
\* with a comma put in before the last five characters, and cut short
DateTexts ==
    LET days == { DateOf(k) : k \in 0..(MaxTicks + 1) }
        vs == UNION { Renderings(dt) :
                      dt \in days \cup { YearBefore(d) : d \in days }
                              \cup { Swapped(d) : d \in days } }
        with_comma(v) ==
            SubSeq(v, 1, Len(v) - 5) \o <<",">> \o SubSeq(v, Len(v) - 4, Len(v))
    IN  { <<>>, <<" ">>, <<" ", "\t">>, <<",">> }
        \cup { p \o v \o x : p \in Prefixes, v \in vs, x \in Suffixes }
        \cup { with_comma(v) : v \in vs }
        \cup { Tail(v) : v \in vs }

\* the snapshots of a ratings table read at clock reading now: up to MaxRows + 1
\* rows, each with the date of today or of yesterday as DD/MM/YYYY inside a
\* timestamp and with an entity or none, under a header row or without one
DatedSnapshots(now) ==
    LET rows == { GridRow(Stamp(k), c, Grade) :
                    k \in {now - 1, now}, c \in {Acme, <<"B">>, <<>>} }
        bodies == SeqsUpTo(rows, MaxRows + 1)
    IN  bodies \cup { <<HeaderRow>> \o b : b \in bodies }

\* the calls looked at: of generate_alert_report, of is_today_date, of
\* get_current_date_str, of the extraction of one page by Acuite and ICRA, and
\* of extract_text_from_element.  The records it is given: a card of classed
\* spans, a record whose class is written with capitals, one whose company
\* element is empty and is followed by a name, one of cells without a class,
\* one of nothing, and None.  The hints: hints of the adapters, one written
\* with a capital, one that is not a text.  ICRA and CRISIL are also given
\* snapshots of up to MaxRows + 1 cards of today and of yesterday, some of
\* which fault when they are processed.  The row loop of NSE is given the
\* table rows of the sites, from locals not yet bound.
Calls ==
    LET elements ==
            { Card(Stamp(0), Acme, Grade),
              Record("div", "", << Elem("span", <<"C","o","-","N","a","m","e">>, Acme) >>),
              Record("div", "", << Elem("span", W_company, <<>>),
                                   Elem("span", W_name, <<"B">>) >>),
              Record("tr", "", << Elem("td", <<>>, <<" ","N","a","m","e",":"," ","B"," ">>),
                                  Elem("td", <<>>, W_company \o <<" ">> \o Acme) >>),
              Record("div", "", <<>>),
              NoElement }
        hints == { W_company, W_name, W_title, <<"N","a","m","e">>, NotAText }
        faulty(r) == [r EXCEPT !.kids = Append(@, Elem("fault", <<>>, <<>>))]
        cards(now) ==
            LET sound == { Card(Stamp(k), c, Grade) : k \in {now - 1, now}, c \in {Acme, <<"B">>} }
            IN  sound \cup { faulty(Card(Stamp(now), c, Grade)) : c \in {Acme, <<"B">>} }
    IN
    { Call("generate_alert_report", [alerts |-> l, now |-> n]) :
        l \in SeqsUpTo(SomeAlerts, MaxAlerts), n \in Ticks }
    \cup { Call("is_today_date", [date_text |-> t, now |-> n]) :
             t \in DateTexts, n \in 0..(MaxTicks + 1) }
    \cup { Call("get_current_date_str", [now |-> n]) : n \in Ticks }
    \cup UNION { { Call("page_alerts", [a |-> c[1], soup |-> q, now |-> c[2]]) :
                   q \in DatedSnapshots(c[2]) } :
                 c \in {"Acuite", "ICRA"} \X (1..MaxTicks) }
    \cup UNION { { Call("page_alerts", [a |-> c[1], soup |-> q, now |-> c[2]]) :
                   q \in SeqsUpTo(cards(c[2]), MaxRows + 1) } :
                 c \in {"ICRA", "CRISIL"} \X (1..MaxTicks) }
    \cup UNION { { Call("nse_alerts", [soup |-> q, segment |-> segments[c[1]], now |-> c[2]]) :
                   q \in SeqsUpTo(TableRecords(c[2]) \cup {GridRow(Stamp(c[2]), <<"B">>, Grade)},
                                  MaxRows) } :
                 c \in (1..Len(segments)) \X (1..MaxTicks) }
    \cup { Call("extract_text_from_element", [element |-> e, selectors |-> h]) :
             e \in elements, h \in SeqsUpTo(hints, MaxHints) }

\* report = alert_system.generate_alert_report(alerts)
call_generate_alert_report ==
    /\ probe.fn = "generate_alert_report"
    /\ Made(generate_alert_report(probe.args.alerts, probe.args.now))

\* self.is_today_date(date_text)
call_is_today_date ==
    /\ probe.fn = "is_today_date"
    /\ Made(is_today_date(probe.args.now, probe.args.date_text))

\* self.get_current_date_str()
call_get_current_date_str ==
    /\ probe.fn = "get_current_date_str"
    /\ Made(get_current_date_str(probe.args.now))

\* the extraction of one page: the snapshot parsed, the row loop run
call_page_alerts ==
    /\ probe.fn = "page_alerts"
    /\ Made(page_alerts(probe.args.a, probe.args.soup, probe.args.now))

\* self.extract_text_from_element(element, selectors)
call_extract_text_from_element ==
    /\ probe.fn = "extract_text_from_element"
    /\ Made(extract_text_from_element(probe.args.element, probe.args.selectors))

\* the row loop of scrape_nse_announcements on the snapshot of one segment, the
\* first one read: the alerts it appends
call_nse_alerts ==
    /\ probe.fn = "nse_alerts"
    /\ Made(nse_alerts(probe.args.soup, probe.args.segment, probe.args.now, Unbound).alerts)

InitCalls ==
    /\ pc = "init" /\ driver = "unset" /\ report = <<>> /\ exit = "" /\ quits = 0
    /\ idx = 1 /\ all_alerts = <<>> /\ results = <<>>
    /\ apc = "open" /\ alerts = <<>> /\ page_num = 0 /\ seg = 1
    /\ current_date = <<>> /\ last_height = 0 /\ row_vars = Unbound
    /\ clock = 0 /\ view = 0 /\ selected = 0
    /\ trace = <<>> /\ misuse = {}
    /\ probe \in Calls

NextCalls ==
    \/ call_generate_alert_report
    \/ call_is_today_date
    \/ call_get_current_date_str
    \/ call_page_alerts
    \/ call_extract_text_from_element
    \/ call_nse_alerts

SpecCalls == InitCalls /\ [][NextCalls]_vars

(***************************************************************************)
(* Vocabulary of the properties.                                           *)
(***************************************************************************)
\* the elements of a sequence
Range(q) == { q[i] : i \in 1..Len(q) }

\* every alert emitted so far: those run_all_scrapers holds, those the adapters
\* returned, and those the adapter at work has collected
Emitted ==
    Range(all_alerts) \cup Range(alerts) \cup
    UNION { Range(results[i].alerts) : i \in 1..Len(results) }

\* the adapter the history in trace belongs to: the one at work, or the one that
\* has just returned
TraceOwner ==
    IF pc # "run" THEN "none"
    ELSE IF apc # "open" THEN scrapers[idx]
    ELSE IF idx > 1 THEN scrapers[idx - 1] ELSE "none"

\* adapter a has just returned to run_all_scrapers
Returned(a) == pc = "run" /\ apc = "open" /\ idx > 1 /\ scrapers[idx - 1] = a

\* the positions of the history at which op was done
At(op) == { i \in 1..Len(trace) : trace[i].op = op }

\* the agency labels of the adapters, in the order of scrapers
AgencyNames == [k \in 1..Len(scrapers) |-> AgencyText(scrapers[k])]

\* the adapter an agency label belongs to
AdapterOf(agency) ==
    CHOOSE k \in 1..Len(scrapers) :
        LET name == AgencyNames[k]
        IN  Len(agency) >= Len(name) /\ \A c \in 1..Len(name) : agency[c] = name[c]

(***************************************************************************)
(* C1                                                                      *)
(***************************************************************************)
\* C1: every alert emitted by any adapter carries a date text that is_today_date
\* accepts at the moment the alert is emitted (the reading of the clock kept in
\* its timestamp), the alerts of the BSE adapter included
C1_EmittedDateIsToday ==
    \A a \in Emitted : is_today_date(a.timestamp, a.date)

(***************************************************************************)
(* C2                                                                      *)
(***************************************************************************)
\* C2: no emitted alert has an empty company; the alerts of SEBI, and only they,
\* carry the constant 'SEBI Announcement', every other alert carries the entity
\* text of the row it was read from
C2_CompanyNeverEmpty ==
    \A a \in Emitted :
        /\ a.company # <<>>
        /\ (a.agency = AgencyText("SEBI")) <=> (a.company = SebiCompany)
        /\ a.agency # AgencyText("SEBI") => a.company = Acme

\* an adapter that reads the entity from the row and SEBI have both emitted, and
\* the run is over
C2_Witness ==
    /\ pc = "done"
    /\ \E a \in Range(all_alerts) : a.agency = AgencyText("SEBI")
    /\ \E a \in Range(all_alerts) : a.agency = AgencyText("Acuite")

(***************************************************************************)
(* C3                                                                      *)
(***************************************************************************)
\* C3: no fault inside an adapter escapes it: every call of an adapter returns a
\* sequence to run_all_scrapers, which calls the seven adapters in the order of
\* scrapers and has called them all when it goes on to save, whatever faults
\* the earlier adapters hit
C3_FaultsContained ==
    /\ \A i \in 1..Len(results) :
          ~results[i].raised /\ results[i].agency = scrapers[i]
    /\ Len(results) = idx - 1
    /\ idx <= Len(scrapers) + 1
    /\ pc \notin {"init", "run"} => Len(results) = Len(scrapers)

\* the last adapter hit a fault after it had collected alerts, the fault was
\* contained (it returned the empty sequence), and all seven have been called
C3_Witness ==
    /\ Returned("SEBI") /\ Len(results) = Len(scrapers)
    /\ alerts # <<>> /\ results[Len(scrapers)].alerts = <<>>
    /\ \E i \in 1..(Len(scrapers) - 1) : results[i].alerts # <<>>

(***************************************************************************)
(* C4                                                                      *)
(***************************************************************************)
\* C4: whatever the Next control does, a paged adapter (ICRA, Acuite, SEBI) never
\* extracts the same page twice in a row, and the pages it has extracted are as
\* many as the distinct pages it has shown
C4_PagedNoRepeat ==
    TraceOwner \in {"ICRA", "Acuite", "SEBI"} =>
        LET read == SelectSeq(trace, LAMBDA e : e.op = "extract")
        IN  /\ \A i \in 1..(Len(read) - 1) : read[i].n # read[i + 1].n
            /\ Len(read) = Cardinality({ read[i].n : i \in 1..Len(read) })

(***************************************************************************)
(* C5                                                                      *)
(***************************************************************************)
\* C5: the CareEdge scroll loop is left exactly at the first iteration whose
\* height equals the height before it: while it loops no two heights in a row
\* were equal, when it has been left the last two heights are equal and no two
\* before them; no count of iterations ends it.  Nothing is collected before
\* the loop is left, so the count returned is no less than at any iteration.
C5_ScrollFixedPoint ==
    TraceOwner = "CareEdge" =>
        LET hs == SelectSeq(trace, LAMBDA e : e.op = "height")
            equal(i) == hs[i].n = hs[i + 1].n
            left == apc = "extract" \/ At("extract") # {}
        IN  /\ \A i \in 1..(Len(hs) - 2) : ~equal(i)
            /\ apc = "scroll" => \A i \in 1..(Len(hs) - 1) : ~equal(i)
            /\ left => Len(hs) >= 2 /\ equal(Len(hs) - 1)
            /\ apc \in {"wait", "scroll", "extract"} => alerts = <<>>
            /\ Returned("CareEdge") => results[idx - 1].alerts \in {alerts, <<>>}

\* the loop went on over two unequal heights, was left at the first equal pair,
\* and the adapter returned what it then read
C5_Witness ==
    /\ Returned("CareEdge")
    /\ Cardinality(At("height")) = 3
    /\ results[idx - 1].alerts # <<>>

(***************************************************************************)
(* C6                                                                      *)
(***************************************************************************)
\* C6: in one call of the CRISIL adapter the records are extracted at most once,
\* after the click loop has ended (no click follows the extraction), once
\* whatever the number of clicks; the loop clicks the control only when it is
\* present, displayed and enabled
C6_ExtractOnceAfterClicks ==
    TraceOwner = "CRISIL" =>
        /\ Cardinality(At("extract")) <= 1
        /\ \A i \in At("extract") : i = Len(trace)
        /\ \A i \in At("click") : trace[i].n = 3
        /\ At("click") \cup At("extract") = 1..Len(trace)
        /\ Returned("CRISIL") /\ results[idx - 1].alerts # <<>> =>
              Cardinality(At("extract")) = 1
        /\ apc \in {"load_more", "extract"} => At("extract") = {} /\ alerts = <<>>

\* the control was clicked twice, then the records were extracted, once
C6_Witness ==
    /\ Returned("CRISIL")
    /\ Cardinality(At("click")) = 2
    /\ Cardinality(At("extract")) = 1
    /\ results[idx - 1].alerts # <<>>

(***************************************************************************)
(* C7                                                                      *)
(***************************************************************************)
\* C7: in the NSE adapter a segment whose tab is not found is skipped without an
\* extraction, the segment after it is still taken up, every alert carries the
\* label of a segment whose tab was clicked, and the adapter returns its alerts
\* to run_all_scrapers, which goes on
C7_MissingTabSkipped ==
    TraceOwner = "NSE" =>
        /\ \A i \in At("extract") :
              i > 1 /\ trace[i - 1].op = "click" /\ trace[i - 1].seg = trace[i].seg
        /\ \A i \in At("no_tab") : \A j \in At("extract") : trace[j].seg # trace[i].seg
        /\ \A i \in At("no_tab") : seg > trace[i].seg
        /\ \A a \in Range(alerts) :
              \E i \in At("click") : a.agency = SegmentLabel("NSE", segments[trace[i].seg])
        /\ Returned("NSE") =>
              /\ seg = Len(segments) + 1 \/ trace = <<>>
              /\ ~results[idx - 1].raised
              /\ results[idx - 1].alerts = alerts

\* the tab of the first segment was not found, the second segment was read and
\* gave alerts, and the adapter has returned them
C7_Witness ==
    /\ Returned("NSE")
    /\ \E i \in At("no_tab") : trace[i].seg = 1
    /\ \E i \in At("extract") : trace[i].seg = 2
    /\ alerts # <<>>

(***************************************************************************)
(* C8                                                                      *)
(***************************************************************************)
\* C8: when the session could not be created, every adapter returns the empty
\* sequence without using the session, run_all_scrapers holds and returns the
\* empty sequence, the report main builds is 'No alerts found for today.', and
\* no exception leaves an adapter or main
C8_NoSessionEmptyRun ==
    driver = "none" =>
        /\ misuse = {} /\ trace = <<>> /\ alerts = <<>>
        /\ \A i \in 1..Len(results) : results[i].alerts = <<>> /\ ~results[i].raised
        /\ all_alerts = <<>>
        /\ pc = "write" => report = NoAlertsMsg
        /\ report \in {<<>>, NoAlertsMsg}
        /\ pc \notin {"init", "run"} => Len(results) = Len(scrapers)
        /\ quits = 0 /\ exit # "uncaught"

\* the session was not created, the run is over and the report was built
C8_Witness ==
    /\ driver = "none" /\ pc = "done"
    /\ Len(results) = Len(scrapers)
    /\ report = NoAlertsMsg

(***************************************************************************)
(* C9                                                                      *)
(***************************************************************************)
\* C9: a session that was created is released exactly once on every way out of
\* main (after a normal run, after a fault of run_all_scrapers, of the report or
\* of the files), never before the adapters are through, and nothing uses the
\* session once it is released
C9_ReleasedOnce ==
    /\ quits <= 1
    /\ pc = "done" /\ driver # "none" => quits = 1 /\ driver = "quit"
    /\ pc # "done" => quits = 0 /\ driver # "quit"
    /\ driver = "none" => quits = 0
    /\ misuse = {}

\* main is left through its handler (run_all_scrapers raised after the adapters
\* had collected alerts, no report was built) and the session was released
C9_Witness ==
    /\ pc = "done" /\ quits = 1 /\ driver = "quit"
    /\ all_alerts # <<>> /\ report = <<>>

(***************************************************************************)
(* C10                                                                     *)
(***************************************************************************)
RECURSIVE Concatenation(_)
\* the alerts of the entries of rs, one after the other
Concatenation(rs) ==
    IF rs = <<>> THEN <<>> ELSE Head(rs).alerts \o Concatenation(Tail(rs))

\* C10: the sequence run_all_scrapers holds and returns is the concatenation of
\* what the adapters returned, in the order ICRA, CareEdge, Acuite, CRISIL, BSE,
\* NSE, SEBI, each adapter's alerts in the order it found them
C10_ConcatenationInOrder ==
    /\ all_alerts = Concatenation(results)
    /\ \A i \in 1..Len(results) : \A a \in Range(results[i].alerts) :
          AdapterOf(a.agency) = i
    /\ LET owner == [i \in 1..Len(all_alerts) |-> AdapterOf(all_alerts[i].agency)]
       IN  \A i, j \in 1..Len(all_alerts) :
               i < j => /\ owner[i] <= owner[j]
                        /\ all_alerts[i].timestamp <= all_alerts[j].timestamp
    /\ \A k \in 1..Len(scrapers) : Returned(scrapers[k]) =>
          results[k].alerts \in {alerts, <<>>}

\* two adapters have returned alerts, one of them two, and run_all_scrapers has
\* returned
C10_Witness ==
    /\ pc = "report"
    /\ Cardinality({ AdapterOf(all_alerts[i].agency) : i \in 1..Len(all_alerts) }) >= 2
    /\ \E i \in 1..Len(results) : Len(results[i].alerts) >= 2

(***************************************************************************)
(* C11                                                                     *)
(***************************************************************************)
\* the position at which agency a is first seen in list
FirstSeen(list, a) ==
    CHOOSE i \in 1..Len(list) :
        list[i].agency = a /\ \A j \in 1..(i - 1) : list[j].agency # a

RECURSIVE SizeSum(_)
\* the sizes of the groups, added up
SizeSum(groups) ==
    IF groups = <<>> THEN 0 ELSE Len(Head(groups).alerts) + SizeSum(Tail(groups))

\* text ends with tail
EndsWith(text, tail) ==
    Len(text) >= Len(tail) /\ SubSeq(text, Len(text) - Len(tail) + 1, Len(text)) = tail

\* C11: generate_alert_report returns the fixed message for the empty list; for
\* any other list the report renders one group per source, the groups in the
\* order in which the sources are first seen, each group the alerts of its
\* source in input order, and the sizes of the groups add up to the number of
\* alerts
C11_ReportGroups ==
    probe.fn = "generate_alert_report" /\ probe.done =>
        LET list == probe.args.alerts
            g == by_agency(list)
            of(a) == SelectSeq(list, LAMBDA x : x.agency = a)
        IN  IF list = <<>> THEN probe.ret = NoAlertsMsg
            ELSE /\ probe.ret # NoAlertsMsg
                 /\ EndsWith(probe.ret, Join(group_lines(g)))
                 /\ { g[i].agency : i \in 1..Len(g) } = { list[k].agency : k \in 1..Len(list) }
                 /\ \A i, j \in 1..Len(g) :
                       i < j => FirstSeen(list, g[i].agency) < FirstSeen(list, g[j].agency)
                 /\ \A i \in 1..Len(g) : g[i].alerts = of(g[i].agency)
                 /\ SizeSum(g) = Len(list)

\* a report was built of a list in which a source comes back after another
C11_Witness ==
    /\ probe.fn = "generate_alert_report" /\ probe.done
    /\ Len(probe.args.alerts) = 3
    /\ probe.args.alerts[1].agency = probe.args.alerts[3].agency
    /\ probe.args.alerts[1].agency # probe.args.alerts[2].agency
    /\ probe.args.alerts[1].company # probe.args.alerts[3].company

(***************************************************************************)
(* C12                                                                     *)
(***************************************************************************)
\* v stands somewhere in text
Within(text, v) ==
    \E i \in 1..Len(text) : \E j \in i..Len(text) : SubSeq(text, i, j) = v

\* C12: is_today_date is false for a text that is empty or all whitespace; for
\* any other text it is true exactly when the text, its surrounding whitespace
\* stripped and its commas removed, holds one of the seven renderings of today
C12_TodayIffContains ==
    probe.fn = "is_today_date" /\ probe.done =>
        LET text == probe.args.date_text
            blank == \A i \in 1..Len(text) : text[i] \in Whitespace
            cleaned == SelectSeq(Strip(text), LAMBDA c : c # ",")
        IN  probe.ret = (~blank /\ \E v \in Renderings(DateOf(probe.args.now)) :
                                       Within(cleaned, v))

\* a text was accepted that holds a rendering of today only once its comma is
\* removed
C12_Witness ==
    /\ probe.fn = "is_today_date" /\ probe.done /\ probe.ret = TRUE
    /\ \E i \in 1..Len(probe.args.date_text) : probe.args.date_text[i] = ","
    /\ \A v \in Renderings(DateOf(probe.args.now)) : ~Within(probe.args.date_text, v)

(***************************************************************************)
(* C13                                                                     *)
(***************************************************************************)
\* C13: is_today_date is true for every rendering of today put between any
\* prefix and any suffix, commas and whitespace in them included; it is false
\* for the empty text and for every rendering of the same day one year before
C13_EmbeddedTodayAccepted ==
    probe.fn = "is_today_date" /\ probe.done =>
        LET text == probe.args.date_text
            today == DateOf(probe.args.now)
        IN  /\ \A v \in Renderings(today) : \A p \in Prefixes : \A x \in Suffixes :
                  text = p \o v \o x => probe.ret = TRUE
            /\ text = <<>> => probe.ret = FALSE
            /\ \A v \in Renderings(YearBefore(today)) : text = v => probe.ret = FALSE

\* a rendering of today with the month's name in full was accepted between a
\* prefix and a suffix that hold commas and whitespace
C13_Witness ==
    /\ probe.fn = "is_today_date" /\ probe.done /\ probe.ret = TRUE
    /\ probe.args.date_text =
          <<" ","o","n",","," ">> \o Fmt_dBy_space(DateOf(probe.args.now))
             \o <<","," ","1","0",":","3","0"," ">>

(***************************************************************************)
(* C14                                                                     *)
(***************************************************************************)
\* C14: get_current_date_str gives the renderings of the current date in the
\* seven formats DD-MM-YYYY, YYYY-MM-DD, DD/MM/YYYY, MM/DD/YYYY, DD-Mon-YYYY,
\* DD Mon YYYY and DD Month YYYY, the same renderings is_today_date tests
\* against
C14_SevenRenderings ==
    probe.fn = "get_current_date_str" /\ probe.done =>
        LET given == { probe.ret[k] : k \in DOMAIN probe.ret }
            today == DateOf(probe.args.now)
        IN  /\ given = Renderings(today)
            /\ given = Range(today_formats(today))

C16_ExtractorNeverRaises ==
    probe.fn = "extract_text_from_element" /\ probe.done =>
        LET e == probe.args.element
            hs == probe.args.selectors
            sound == { i \in 1..Len(hs) : ~try_selector(e, hs[i]).raised }
        IN  /\ probe.ret # Raised
            /\ probe.ret = extract_text_from_element(e, [i \in 1..Cardinality(sound) |->
                   hs[CHOOSE k \in sound : Cardinality({j \in sound : j < k}) = i - 1]])
            /\ sound = {} => probe.ret = <<>>

\* a hint that is not a text faulted on a card, and the hint after it gave the company
C16_Witness ==
    /\ probe.fn = "extract_text_from_element" /\ probe.done
    /\ probe.args.element = Card(Stamp(0), Acme, Grade)
    /\ probe.args.selectors = <<NotAText, W_company>>
    /\ probe.ret = Acme

(***************************************************************************)
(* C17                                                                     *)
(***************************************************************************)
\* C17: no fault of an adapter, of run_all_scrapers or of the writing of the
\* output files surfaces from main: nothing has left main while it is at work,
\* whatever faults it met, every adapter has been called when it ends, and it
\* ends with a zero exit; the one exception that can leave it is raised by the
\* release of the session itself, which is none of these faults.
C17_ExitsZero ==
    /\ pc # "done" => exit = ""
    /\ pc = "done" =>
          /\ Len(results) = Len(scrapers)
          /\ exit = "zero" \/ (exit = "uncaught" /\ quits = 1)
          /\ driver = "none" => exit = "zero"

\* main ended with a zero exit after run_all_scrapers had faulted on its file
\* with alerts in hand: no report was built, the session was released
C17_Witness ==
    /\ pc = "done" /\ exit = "zero" /\ driver = "quit"
    /\ Len(all_alerts) > 1 /\ report = <<>>

(***************************************************************************)
(* C18                                                                     *)
(***************************************************************************)
\* C18: given a record and a list of hints that are texts,
\* extract_text_from_element returns the trimmed text of the first match, the
\* hints taken in list order and, for each hint, an element whose class contains
\* it before an element whose text contains it, letter case ignored in both;
\* and it returns the empty text only when no hint matches.
C18_FirstMatchAnyCase ==
    /\ probe.fn = "extract_text_from_element" /\ probe.done
    /\ probe.args.element # NoElement
    /\ \A i \in 1..Len(probe.args.selectors) : probe.args.selectors[i] # NotAText
    =>
    LET kids == probe.args.element.kids
        hs == probe.args.selectors
        in_class(h) == { k \in 1..Len(kids) :
                           kids[k].cls # <<>> /\ Contains(Lower(kids[k].cls), Lower(h)) }
        in_text(h) == { k \in 1..Len(kids) :
                          kids[k].text # <<>> /\ Contains(Lower(kids[k].text), Lower(h)) }
        matching == { i \in 1..Len(hs) : in_class(hs[i]) \cup in_text(hs[i]) # {} }
        h1 == hs[FirstIndex(matching)]
        k1 == IF in_class(h1) # {} THEN FirstIndex(in_class(h1)) ELSE FirstIndex(in_text(h1))
    IN  /\ matching # {} => probe.ret = Strip(kids[k1].text)
        /\ probe.ret = <<>> <=> matching = {}

(***************************************************************************)
(* C19                                                                     *)
(***************************************************************************)
\* C19: in the loop of a paged adapter every page reached is extracted before
\* the next control is looked up: the lookup, whether it ends in a click or in
\* leaving the loop, comes right after the extraction of the page then shown,
\* so the page the loop is left on has been extracted; and the page counter is
\* the number of clicks made plus one, in the loop and after it.
C19_ExtractBeforeNext ==
    TraceOwner \in {"ICRA", "Acuite", "SEBI"} =>
        LET clicks == Cardinality(At("click"))
            read == Cardinality(At("extract"))
        IN  /\ \A i \in At("click") \cup At("break") :
                  i > 1 /\ trace[i - 1].op = "extract"
            /\ \A i \in At("click") : trace[i - 1].n = trace[i].n
            /\ \A i \in At("extract") : i > 1 => trace[i - 1].op = "click"
            /\ apc = "next" =>
                  /\ trace[Len(trace)] = Ev("extract", view)
                  /\ read = page_num
            /\ apc = "extract" => read = page_num - 1
            /\ apc \in {"extract", "next"} \/ trace # <<>> => page_num = clicks + 1
            /\ At("break") # {} =>
                  /\ At("break") = {Len(trace)}
                  /\ trace[Len(trace) - 1].n = view
                  /\ read = page_num

\* Acuite clicked once, reached the following page, extracted it and left the
\* loop there: two pages read, the counter at two
C19_Witness ==
    /\ Returned("Acuite")
    /\ At("break") # {} /\ Cardinality(At("click")) = 1 /\ page_num = 2
    /\ trace[1].n # trace[3].n
    /\ results[idx - 1].alerts # <<>>

(***************************************************************************)
(* C20                                                                     *)
(***************************************************************************)
\* C20: a paged adapter never leaves its loop on a page whose next control is
\* an enabled anchor, button or input whose visible text contains "next",
\* letter case ignored.
C20_NextAnyCaseAnyTag ==
    TraceOwner \in {"ICRA", "Acuite", "SEBI"} =>
        \A i \in At("break") :
            LET ctl == trace[i].n
            IN  ~(/\ ctl.tag \in {"a", "button", "input"}
                  /\ Contains(Lower(ctl.label), Lower(L_Next))
                  /\ ctl.enabled)

(***************************************************************************)
(* C21                                                                     *)
(***************************************************************************)
\* C21: when a control of the date filter is absent (the from-date input, the
\* to-date input, the search control), the step of ICRA, BSE or SEBI that met
\* the absence does not return from the adapter: nothing is handed to
\* run_all_scrapers and the adapter stands at its traversal, the first page of
\* ICRA and SEBI, the first segment of BSE.
C21_FilterAbsentGoesOn ==
    [][ /\ Len(trace') = Len(trace) + 1
        /\ trace'[Len(trace')].op = "filter"
        /\ trace'[Len(trace')].n # "filter"
        => /\ scrapers[idx] \in {"ICRA", "BSE", "SEBI"}
           /\ idx' = idx /\ results' = results
           /\ apc' = IF scrapers[idx] = "BSE" THEN "segment" ELSE "extract"
           /\ scrapers[idx] = "BSE" => seg' = 1
           /\ scrapers[idx] # "BSE" => page_num' = 1 /\ alerts' = <<>> ]_vars

\* SEBI found no search control and stands at the first page of the unfiltered
\* view, after ICRA and BSE had done the same and returned alerts
C21_Witness ==
    /\ Running("SEBI") /\ apc = "extract" /\ page_num = 1
    /\ trace = << Ev("filter", "no_search") >>
    /\ all_alerts # <<>>

(***************************************************************************)
(* C22                                                                     *)
(***************************************************************************)
\* C22: a fault in the processing of one record skips that record only: of a
\* snapshot of cards, ICRA and CRISIL emit what they emit of the snapshot
\* without the faulting cards, which is one alert for each other card of today,
\* in document order, those after a faulting card included.
C22_FaultSkipsOneRecord ==
    /\ probe.fn = "page_alerts" /\ probe.done
    /\ \A i \in 1..Len(probe.args.soup) : probe.args.soup[i].tag = "div"
    =>
        LET soup == probe.args.soup
            today == Fmt_dmy_slash(DateOf(probe.args.now))
            others == SelectSeq(soup, LAMBDA r : ~faults(r))
            wanted == SelectSeq(others, LAMBDA r : Within(Strip(r.kids[2].text), today))
        IN  /\ probe.ret = page_alerts(probe.args.a, others, probe.args.now)
            /\ Len(probe.ret) = Len(wanted)
            /\ \A i \in 1..Len(wanted) : probe.ret[i].company = wanted[i].kids[1].text

\* CRISIL read three cards of today; the second faulted; the first and the
\* third gave their alerts
C22_Witness ==
    /\ probe.fn = "page_alerts" /\ probe.args.a = "CRISIL" /\ probe.done
    /\ Len(probe.args.soup) = 3
    /\ ~faults(probe.args.soup[1]) /\ faults(probe.args.soup[2]) /\ ~faults(probe.args.soup[3])
    /\ Len(probe.ret) = 2
    /\ probe.ret[1].company = Acme /\ probe.ret[2].company = <<"B">>

(***************************************************************************)
(* C23                                                                     *)
(***************************************************************************)
\* C23: of a table, the NSE row loop emits one alert for each row of three
\* cells or more that has a company and today's date, built from the cells of
\* that row, and nothing for any other row: a row of fewer than three cells
\* yields no alert.
C23_RowOwnCells ==
    probe.fn = "nse_alerts" /\ probe.done =>
        LET now == probe.args.now
            full(r) == /\ Len(cells_of(r)) >= 3
                       /\ cells_of(r)[2] # <<>>
                       /\ is_today_date(now, cells_of(r)[1])
            own == SelectSeq(probe.args.soup, full)
        IN  /\ Len(probe.ret) = Len(own)
            /\ \A i \in 1..Len(own) :
                  /\ probe.ret[i].company = cells_of(own[i])[2]
                  /\ probe.ret[i].date = cells_of(own[i])[1]
                  /\ probe.ret[i].action = cells_of(own[i])[3]

(***************************************************************************)
(* C24                                                                     *)
(***************************************************************************)
\* C24: when the BSE adapter returns alerts labelled with a segment, it read
\* them from a snapshot taken while the site showed that segment, chosen in the
\* dropdown and submitted; and no two snapshots it read showed the same view.
C24_SegmentShown ==
    Returned("BSE") =>
        /\ \A k \in 1..Len(segments) :
              (\E a \in Range(results[idx - 1].alerts) :
                    a.agency = SegmentLabel("BSE", segments[k]))
              => \E i \in At("extract") : trace[i].seg = k /\ trace[i].n = k
        /\ \A i, j \in At("extract") : i # j => trace[i].n # trace[j].n

(***************************************************************************)
(* C25                                                                     *)
(***************************************************************************)
\* C25: is_today_date is false for every text that is the rendering, in one of
\* the seven formats, of a day other than today: the days around today, the
\* same day one year before, and the day whose day and month numbers are
\* today's swapped.
C25_OtherDateRejected ==
    probe.fn = "is_today_date" /\ probe.done =>
        LET today == DateOf(probe.args.now)
            near == { DateOf(k) : k \in 0..(MaxTicks + 2) }
            others == (near \cup { YearBefore(d) : d \in near }
                            \cup { Swapped(d) : d \in near }) \ {today}
        IN  (\E dt \in others : probe.args.date_text \in Renderings(dt))
            => probe.ret = FALSE

(***************************************************************************)
(* C26                                                                     *)
(***************************************************************************)
\* C26: a paged, scroll or load-more adapter returns what it has collected only
\* when it comes to its end, the break of the page loop or the extraction after
\* the scroll and load-more loops; when a fault that is no missing control ends
\* it earlier, it returns the empty sequence, whatever it had collected, and
\* nothing of that reaches the alerts of the run.
C26_PartialDiscarded ==
    \A a \in {"ICRA", "CareEdge", "Acuite", "CRISIL", "SEBI"} :
        Returned(a) =>
            LET r == results[idx - 1].alerts
                ended == IF a \in {"CareEdge", "CRISIL"}
                         THEN At("extract") # {} \/ alerts = <<>>
                         ELSE At("break") # {}
            IN  /\ ended => r = alerts
                /\ ~ended => r = <<>>
                /\ all_alerts = Concatenation(results)

\* Acuite collected an alert on its first page, clicked Next, and faulted on the
\* page after: it returned nothing
C26_Witness ==
    /\ Returned("Acuite")
    /\ At("click") # {} /\ At("break") = {}
    /\ alerts # <<>> /\ results[idx - 1].alerts = <<>>
====
